---- MODULE Spec2Model ----
(***************************************************************************)
(* A model of neilg63/textcrawler (src/crawler.go): the cache-aside read   *)
(* path readBlogPage / getCache / setCache over the Redis store, the       *)
(* article extractor readBlogArticles / readLiveBlogPage, the word counter *)
(* removeSpaces / extractWords / extractNumWords and the DOM path builder  *)
(* buildClassesIdSet / ClassesIdSet.ToPath.                                *)
(*                                                                         *)
(* Go strings whose inner structure matters (node text, attribute values,  *)
(* paths) are sequences of one-token strings; titles, hrefs and uris, which *)
(* the code only copies and compares, are TLA+ strings.                     *)
(***************************************************************************)
EXTENDS Integers, Sequences, FiniteSets, TLC

VARIABLES
    store,      \* the Redis store: cache key -> entry or NoEntry
    req,        \* per HTTP handler goroutine: the readBlogPage call in progress
    lastWrite,  \* per cache key: the Page of the latest setCache, or NoPage
    bow,        \* the browser's document read by readLiveBlogPage
    extracted,  \* the outcome of readLiveBlogPage on bow
    text,       \* selection.Text() handed to extractNumWords
    numWords,   \* the result of extractNumWords
    selection,  \* the node handed to buildClassesIdSet, as its ancestor chain
    cData,      \* the ClassesIdSet built for selection
    counts,     \* the CountItems discoverLivePage added for selection
    phase       \* the position of the function under analysis

vars == <<store, req, lastWrite, bow, extracted, text, numWords,
          selection, cData, counts, phase>>

cacheVars == <<store, req, lastWrite>>
extractVars == <<bow, extracted>>
wordVars == <<text, numWords>>
pathVars == <<selection, cData, counts>>

(***************************************************************************)
(* Go's strings package on token sequences.                                *)
(***************************************************************************)

\* strings.Contains(s, c) for a one-token c
Contains(s, c) == \E i \in 1..Len(s) : s[i] = c

RECURSIVE TrimLeft(_, _)
TrimLeft(s, cutset) ==
    IF s = <<>> \/ Head(s) \notin cutset THEN s ELSE TrimLeft(Tail(s), cutset)

RECURSIVE TrimRight(_, _)
TrimRight(s, cutset) ==
    IF s = <<>> \/ s[Len(s)] \notin cutset THEN s
    ELSE TrimRight(SubSeq(s, 1, Len(s) - 1), cutset)

\* strings.Trim(s, cutset)
Trim(s, cutset) == TrimRight(TrimLeft(s, cutset), cutset)

\* strings.Split(s, sep) for a one-token sep: always at least one element
RECURSIVE Split(_, _)
Split(s, sep) ==
    IF ~Contains(s, sep) THEN <<s>>
    ELSE LET i == CHOOSE k \in 1..Len(s) :
                      s[k] = sep /\ \A j \in 1..(k - 1) : s[j] # sep
         IN <<SubSeq(s, 1, i - 1)>> \o Split(SubSeq(s, i + 1, Len(s)), sep)

\* strings.Join(parts, sep)
RECURSIVE Join(_, _)
Join(parts, sep) ==
    IF parts = <<>> THEN <<>>
    ELSE IF Len(parts) = 1 THEN parts[1]
    ELSE parts[1] \o sep \o Join(Tail(parts), sep)

(***************************************************************************)
(* Word counting: removeSpaces, extractWords, extractNumWords.             *)
(***************************************************************************)

\* the regexp class \s of Go's RE2 syntax
Whitespace == {" ", "\t", "\n", "\f", "\r"}

\* cleanSpaceRgx.ReplaceAllString(s, " ") for the pattern \s\s+ :
\* every maximal run of two or more whitespace tokens becomes one space
RECURSIVE ReplaceSpaceRuns(_)
ReplaceSpaceRuns(s) ==
    IF s = <<>> THEN <<>>
    ELSE IF Len(s) >= 2 /\ s[1] \in Whitespace /\ s[2] \in Whitespace
         THEN <<" ">> \o ReplaceSpaceRuns(TrimLeft(s, Whitespace))
         ELSE <<Head(s)>> \o ReplaceSpaceRuns(Tail(s))

\* removeSpaces: the trim of spaces comes first, then the replacement
removeSpaces(txt) == ReplaceSpaceRuns(Trim(txt, {" "}))

extractWords(txt) == Split(removeSpaces(txt), " ")

extractNumWords(txt) == Len(extractWords(txt))

(***************************************************************************)
(* DOM path building: extractClasses, buildClassesIdSet, ToPath.           *)
(* A selection is the chain of element nodes from the document's root      *)
(* element down to the selected node; Parent drops the last one. A node is *)
(* [tagName, hasId, id, hasClass, class, text], text being the node's      *)
(* flattened text.                                                         *)
(***************************************************************************)

\* selection.Parent(): empty (Length() = 0) above the root element
Parent(sel) == SubSeq(sel, 1, Len(sel) - 1)

Node(sel) == sel[Len(sel)]

extractClasses(sel) ==
    IF Node(sel).hasClass THEN Split(Node(sel).class, " ") ELSE <<>>

ToPath(cs) ==
    LET parts == <<cs.TagName>>
                 \o (IF Len(cs.Id) > 0 THEN <<<<"#">> \o cs.Id>> ELSE <<>>)
                 \o (IF Len(cs.Classes) > 0
                     THEN <<<<".">> \o Join(cs.Classes, <<".">>)>> ELSE <<>>)
    IN Trim(Join(<<cs.ParentPath, Join(parts, <<>>)>>, <<" ">>), {" "})

\* a root test that forgets body
RootTagsHtmlOnly == {<<"html">>}

RootTags == {<<"body">>, <<"html">>}

\* a marker test that forgets the id marker
HasMarkerDotOnly(path) == Contains(path, ".")

HasMarker(path) == Contains(path, ".") \/ Contains(path, "#")

RECURSIVE buildClassesIdSet(_)
buildClassesIdSet(sel) ==
    LET id == IF Node(sel).hasId THEN Node(sel).id ELSE <<>>
        classes == extractClasses(sel)
        wordCount == extractNumWords(Node(sel).text)
        tagName == Node(sel).tagName
        parent == Parent(sel)
        parentSet == buildClassesIdSet(parent)
        path1 == IF parentSet.TagName \notin RootTags
                 THEN ToPath(parentSet) ELSE <<>>
        grand == Parent(parent)
        grandSet == buildClassesIdSet(grand)
        path2 == IF Len(grand) > 0 /\ grandSet.TagName \notin RootTags
                 THEN ToPath(grandSet) ELSE path1
        parentPath == IF Len(parent) > 0
                      THEN IF ~HasMarker(path1) THEN path2 ELSE path1
                      ELSE <<>>
    IN [Id |-> id, Classes |-> classes, WordCount |-> wordCount,
        TagName |-> tagName, ParentPath |-> parentPath]

(***************************************************************************)
(* Inputs of the word counter and of the path builder.                     *)
(***************************************************************************)

MaxTextLen == 5
MaxDepth == 3

TextTokens == {"a", " ", "\n"}

RECURSIVE SeqsUpTo(_, _)
SeqsUpTo(S, n) ==
    IF n = 0 THEN {<<>>}
    ELSE LET shorter == SeqsUpTo(S, n - 1)
         IN shorter \cup {Append(s, x) : s \in shorter, x \in S}

\* the texts of the documented examples, longer than MaxTextLen
ExampleTexts ==
    { <<"a", " ", " ", " ", "b">>,
      <<" ", " ", "a", " ", " ", "b", " ", " ", "c", " ", " ">>,
      <<"\n", " ", " ", "a", "\t", "b", " ", "\n">> }

Texts == SeqsUpTo(TextTokens, MaxTextLen) \cup ExampleTexts

\* n words separated by single spaces
RECURSIVE WordsText(_)
WordsText(n) ==
    IF n = 0 THEN <<>>
    ELSE IF n = 1 THEN <<"a">>
    ELSE <<"a", " ">> \o WordsText(n - 1)

Elem(tag, hasId, id, hasClass, class, n) ==
    [tagName |-> <<tag>>, hasId |-> hasId, id |-> id,
     hasClass |-> hasClass, class |-> class, text |-> WordsText(n)]

HtmlNode == Elem("html", FALSE, <<>>, FALSE, <<>>, 2)
BodyNode == Elem("body", FALSE, <<>>, FALSE, <<>>, 2)

ElemKinds ==
    { Elem("div", FALSE, <<>>, FALSE, <<>>, 16),
      Elem("div", TRUE, <<"x">>, FALSE, <<>>, 2),
      Elem("section", FALSE, <<>>, TRUE, <<"foo">>, 17),
      Elem("article", FALSE, <<>>, TRUE, <<"c", " ", "d">>, 2),
      Elem("aside", TRUE, <<>>, TRUE, <<>>, 2),
      Elem("main", FALSE, <<>>, FALSE, <<>>, 2) }

\* body.Find("div, article, section, aside")
BlockTags == {<<"div">>, <<"article">>, <<"section">>, <<"aside">>}

Selections ==
    { <<HtmlNode, BodyNode>> \o s : s \in
        { t \in SeqsUpTo(ElemKinds, MaxDepth) :
            Len(t) > 0 /\ t[Len(t)].tagName \in BlockTags } }

NoSet == [Id |-> <<>>, Classes |-> <<>>, WordCount |-> 0,
          TagName |-> <<>>, ParentPath |-> <<>>]

(***************************************************************************)
(* extractNumWords on one text.                                            *)
(***************************************************************************)

WordsIdle == text = <<>> /\ numWords = 0
PathIdle == selection = <<>> /\ cData = NoSet /\ counts = <<>>

CountWords ==
    /\ phase = "input"
    /\ numWords' = extractNumWords(text)
    /\ phase' = "counted"
    /\ UNCHANGED <<text, cacheVars, extractVars, pathVars>>

(***************************************************************************)
(* discoverLivePage's loop body on one block element.                      *)
(***************************************************************************)

addCountItem(cs, key, val) == Append(cs, [Key |-> key, Value |-> val])

DiscoverBlock ==
    /\ phase = "selected"
    /\ cData' = buildClassesIdSet(selection)
    /\ counts' = IF cData'.WordCount > 16
                 THEN addCountItem(counts, ToPath(cData'), cData'.WordCount)
                 ELSE counts
    /\ phase' = "built"
    /\ UNCHANGED <<selection, cacheVars, extractVars, wordVars>>

(***************************************************************************)
(* Article extraction: readBlogArticles, readLiveBlogPage.                 *)
(* A document is [exists, title, articles, links]: articles the nodes      *)
(* bow.Find("article") selects, in document order, links the link objects  *)
(* bow.Links() returns. A candidate is [html, htmlErr, headings, anchors]: *)
(* html its inner markup as tokens, headings its h1/h2/h3 elements (each   *)
(* [text, anchors]), anchors all its a elements; an anchor is              *)
(* [hasHref, href, text]. A Go slice is a sequence, nil being <<>>.        *)
(***************************************************************************)

maxNum == 100

\* a membership test that compares the titles instead of the uris
uriIsInLinkItemsByTitle(links, str) ==
    \E i \in 1..Len(links) : links[i].Title = str

uriIsInLinkItems(links, str) == \E i \in 1..Len(links) : links[i].Uri = str

makeArticle(title, uri, content, links) ==
    [Title |-> title, Uri |-> uri, Content |-> content, Links |-> links]

makePage(title, uri, exists, articles, links) ==
    [Title |-> title, Uri |-> uri, Exists |-> exists, Articles |-> articles,
     Links |-> links, Cached |-> FALSE]

emptyPage ==
    [Title |-> "", Uri |-> "", Exists |-> FALSE, Articles |-> <<>>,
     Links |-> <<>>, Cached |-> FALSE]

\* the zero value of Article, which every slot of output starts with
ZeroArticle == [Title |-> "", Uri |-> "", Content |-> <<>>, Links |-> <<>>]

\* articles.Find("img,svg,embed,iframe,object,style,script").Remove()
NoiseTokens == {"<img>", "<svg>", "<embed>", "<iframe>", "<object>",
                "<style>", "<script>"}

RemoveNoise(cand) ==
    [cand EXCEPT !.html = SelectSeq(cand.html, LAMBDA t : t \notin NoiseTokens)]

\* the comments the pattern <!--[^>]*?--> matches: those holding no '>'
MatchedComments == {"<!--c-->"}

\* strings.Trim(p1.ReplaceAllString(itemHtml, ""), "\n\t ")
ArticleContent(itemHtml) ==
    Trim(SelectSeq(itemHtml, LAMBDA t : t \notin MatchedComments),
         {"\n", "\t", " "})

\* the loop over linkEls of readBlogArticles, from index j on
RECURSIVE ArticleLinks(_, _, _)
ArticleLinks(linkEls, j, links) ==
    IF j > Len(linkEls) THEN links
    ELSE LET val == linkEls[j].href
             lk == [Uri |-> val, Title |-> linkEls[j].text]
         IN ArticleLinks(linkEls, j + 1,
                IF linkEls[j].hasHref /\ ~uriIsInLinkItems(links, val)
                THEN Append(links, lk) ELSE links)

\* selection.AttrOr("href", "") on the first element of the selection
AttrOrHref(els) == IF els[1].hasHref THEN els[1].href ELSE ""

\* the body of readBlogArticles' loop: the value slot i of output ends with
ArticleSlot(cand) ==
    IF ~cand.htmlErr /\ Len(cand.headings) > 0
       /\ Len(cand.headings[1].anchors) > 0
    THEN makeArticle(cand.headings[1].text,
                     AttrOrHref(cand.headings[1].anchors),
                     ArticleContent(cand.html),
                     ArticleLinks(cand.anchors, 1, <<>>))
    ELSE ZeroArticle

\* output[0:numArticles] of the array [maxNum]Article: a run-time panic
\* (slice bounds out of range) when numArticles exceeds the array's length
SliceOutput(output, numArticles) ==
    IF numArticles > maxNum THEN [panic |-> TRUE, articles |-> <<>>]
    ELSE [panic |-> FALSE, articles |-> SubSeq(output, 1, numArticles)]

readBlogArticles(doc) ==
    LET articles == [i \in 1..Len(doc.articles) |-> RemoveNoise(doc.articles[i])]
        numArticles == Len(articles)
        output == [i \in 1..maxNum |->
                      IF i <= numArticles THEN ArticleSlot(articles[i])
                      ELSE ZeroArticle]
    IN SliceOutput(output, numArticles)

\* the loop over linkObjs of readLiveBlogPage, from index i on
RECURSIVE PageLinks(_, _, _)
PageLinks(linkObjs, i, links) ==
    IF i > Len(linkObjs) THEN links
    ELSE LET path == linkObjs[i].Path
             newLink == [Uri |-> path, Title |-> linkObjs[i].Text]
         IN PageLinks(linkObjs, i + 1,
                IF path # "" /\ ~uriIsInLinkItems(links, path)
                THEN Append(links, newLink) ELSE links)

\* [panic, page]: page is what readLiveBlogPage returns, when it returns
readLiveBlogPage(uri, doc) ==
    IF doc.exists
    THEN LET res == readBlogArticles(doc)
         IN IF res.panic THEN [panic |-> TRUE, page |-> emptyPage]
            ELSE [panic |-> FALSE,
                  page |-> makePage(doc.title, uri, TRUE, res.articles,
                                    PageLinks(doc.links, 1, <<>>))]
    ELSE [panic |-> FALSE, page |-> makePage("", uri, FALSE, <<>>, <<>>)]

(***************************************************************************)
(* Documents.                                                              *)
(***************************************************************************)

MaxArticles == 102
MaxPattern == 2
MaxAnchors == 3
MaxLinks == 3

Anchor(hasHref, href, txt) == [hasHref |-> hasHref, href |-> href, text |-> txt]

AnchorKinds ==
    { Anchor(TRUE, "/p1", "T"), Anchor(TRUE, "/p1", "again"),
      Anchor(TRUE, "/x", "X"), Anchor(FALSE, "", "named"),
      Anchor(TRUE, "", "empty") }

Candidate(html, headings, anchors) ==
    [html |-> html, htmlErr |-> FALSE, headings |-> headings, anchors |-> anchors]

\* <article><h2><a href="/p1">T</a></h2><p>hello world</p></article>
ValidCandidate(anchors) ==
    Candidate(<<"\n", "<!--c-->", "<h2><a href=/p1>T</a></h2>", "<img>",
                "<p>hello world</p>", "<!--a>b-->", " ">>,
              <<[text |-> "T", anchors |-> <<Anchor(TRUE, "/p1", "T")>>]>>,
              <<Anchor(TRUE, "/p1", "T")>> \o anchors)

\* no h1/h2/h3 at all
NoHeadingCandidate ==
    Candidate(<<"<p>text</p>">>, <<>>, <<Anchor(TRUE, "/x", "X")>>)

\* a first heading without an anchor, a second one with an anchor
NoAnchorCandidate ==
    Candidate(<<"<h1>Plain</h1>", "<h2><a href=/p2>P</a></h2>">>,
              <<[text |-> "Plain", anchors |-> <<>>],
                [text |-> "P", anchors |-> <<Anchor(TRUE, "/p2", "P")>>]>>,
              <<Anchor(TRUE, "/p2", "P")>>)

\* a heading whose anchor has no href attribute
NoHrefCandidate ==
    Candidate(<<"<h3><a name=n>N</a></h3>">>,
              <<[text |-> "N", anchors |-> <<Anchor(FALSE, "", "N")>>]>>,
              <<Anchor(FALSE, "", "N"), Anchor(TRUE, "/x", "X")>>)

CandidateKinds ==
    { ValidCandidate(<<Anchor(TRUE, "/x", "X"), Anchor(TRUE, "/p1", "again")>>),
      NoHeadingCandidate, NoAnchorCandidate, NoHrefCandidate }

\* n candidates repeating the pattern pat
Repeat(pat, n) == [i \in 1..n |-> pat[((i - 1) % Len(pat)) + 1]]

LinkObj(path, txt) == [Path |-> path, Text |-> txt]

LinkObjKinds ==
    { LinkObj("/a", "A"), LinkObj("/a", "again"), LinkObj("/b", "B"),
      LinkObj("", "home") }

Document(title, articles, links) ==
    [exists |-> TRUE, title |-> title, articles |-> articles, links |-> links]

\* what the browser holds when bow.Open fails
NoDocument == [exists |-> FALSE, title |-> "", articles |-> <<>>, links |-> <<>>]

ArticleDocs ==
    { Document("Blog", Repeat(pat, n), <<LinkObj("/a", "A")>>) :
        pat \in SeqsUpTo(CandidateKinds, MaxPattern) \ {<<>>},
        n \in 0..MaxArticles }

AnchorDocs ==
    { Document("Post", <<ValidCandidate(as)>>,
               <<LinkObj("/a", "A"), LinkObj("/b", "B"), LinkObj("/a", "again")>>) :
        as \in SeqsUpTo(AnchorKinds, MaxAnchors) }

LinkDocs ==
    { Document("Links", <<NoHeadingCandidate>>, ls) :
        ls \in SeqsUpTo(LinkObjKinds, MaxLinks) }

Docs == {NoDocument} \cup ArticleDocs \cup AnchorDocs \cup LinkDocs

NoResult == [panic |-> FALSE, page |-> emptyPage]

ExtractIdle == bow = NoDocument /\ extracted = NoResult

(***************************************************************************)
(* readLiveBlogPage on one document.                                       *)
(***************************************************************************)

ReadLive ==
    /\ phase = "opened"
    /\ extracted' = readLiveBlogPage("http://blog.example", bow)
    /\ phase' = "extracted"
    /\ UNCHANGED <<bow, cacheVars, wordVars, pathVars>>

(***************************************************************************)
(* The cache: storeClient, setCache, getCache, readBlogPage, homePage.     *)
(* A store entry is [present, payload, ttl]; a payload is the text Redis   *)
(* holds: [kind, obj, bad], kind "json" for a JSON object obj whose fields *)
(* named in bad hold a value of the wrong type, kind "garbage" for text    *)
(* that is no JSON at all.                                                 *)
(***************************************************************************)

Paths == {"a.example", "b.example"}
Schemes == {"https"}
CacheModes == {"cache", "refresh"}
Handlers == {"h1", "h2"}

cacheTtl == 1440

JsonLinks(links) ==
    [i \in 1..Len(links) |-> [title |-> links[i].Title, uri |-> links[i].Uri]]

JsonArticles(articles) ==
    [i \in 1..Len(articles) |->
        [title |-> articles[i].Title, uri |-> articles[i].Uri,
         content |-> articles[i].Content,
         links |-> JsonLinks(articles[i].Links)]]

\* json.MarshalIndent(data, "", " ") of a Page, by the struct's json tags
MarshalIndent(data) ==
    [kind |-> "json", bad |-> {},
     obj |-> [uri |-> data.Uri, exists |-> data.Exists, cached |-> data.Cached,
              title |-> data.Title, articles |-> JsonArticles(data.Articles),
              links |-> JsonLinks(data.Links)]]

GoLinks(links) ==
    [i \in 1..Len(links) |-> [Title |-> links[i].title, Uri |-> links[i].uri]]

GoArticles(articles) ==
    [i \in 1..Len(articles) |->
        [Title |-> articles[i].title, Uri |-> articles[i].uri,
         Content |-> articles[i].content, Links |-> GoLinks(articles[i].links)]]

\* a decoder that finds no "links" field to fill Page.Links from
UnmarshalWithoutLinks(val, page) ==
    IF val.kind # "json" THEN page
    ELSE [Uri |-> val.obj.uri, Exists |-> val.obj.exists,
          Cached |-> val.obj.cached, Title |-> val.obj.title,
          Articles |-> GoArticles(val.obj.articles), Links |-> page.Links]

\* json.Unmarshal([]byte(val), &page): text that is no JSON leaves page as it
\* was; a field whose value has the wrong type is skipped and the rest is
\* decoded. The error is the second component, which getCache drops.
Unmarshal(val, page) ==
    IF val.kind # "json" THEN page
    ELSE [Uri |-> IF "uri" \in val.bad THEN page.Uri ELSE val.obj.uri,
          Exists |-> IF "exists" \in val.bad THEN page.Exists ELSE val.obj.exists,
          Cached |-> IF "cached" \in val.bad THEN page.Cached ELSE val.obj.cached,
          Title |-> IF "title" \in val.bad THEN page.Title ELSE val.obj.title,
          Articles |-> IF "articles" \in val.bad THEN page.Articles
                       ELSE GoArticles(val.obj.articles),
          Links |-> IF "links" \in val.bad THEN page.Links
                    ELSE GoLinks(val.obj.links)]

NoPayload == [kind |-> "none", bad |-> {}, obj |-> MarshalIndent(emptyPage).obj]

NoEntry == [present |-> FALSE, payload |-> NoPayload, ttl |-> 0]

Entry(payload, minutes) == [present |-> TRUE, payload |-> payload, ttl |-> minutes]

CacheKey(path) == <<"page:", path>>

CacheKeys == {CacheKey(path) : path \in Paths}

\* rdb.Set(ctx, key, ret, duration): the whole value of the key is replaced
setCache(st, key, data, minutes) ==
    [st EXCEPT ![key] = Entry(MarshalIndent(data), minutes)]

\* [result, err]: err is TRUE for redis.Nil, the key being absent
getCache(st, key) ==
    IF st[key].present
    THEN [result |-> Unmarshal(st[key].payload, emptyPage), err |-> FALSE]
    ELSE [result |-> emptyPage, err |-> TRUE]

setCached(page) == [page EXCEPT !.Cached = TRUE]

\* the test of readBlogPage that takes the cached branch
ServesCached(errVal, cached) == ~errVal /\ cached

(***************************************************************************)
(* What the sites serve and what the store may hold at start-up.           *)
(***************************************************************************)

SmallDoc ==
    Document("Blog",
             <<ValidCandidate(<<Anchor(TRUE, "/x", "X")>>), NoHeadingCandidate>>,
             <<LinkObj("/a", "A"), LinkObj("/a", "again")>>)

BigDoc == Document("Archive", Repeat(<<ValidCandidate(<<>>)>>, maxNum + 1), <<>>)

SiteDocs == {NoDocument, SmallDoc, BigDoc}

Uri(scheme, path) == <<scheme, "://", path>>

\* text that is no JSON
GarbagePayload == [NoPayload EXCEPT !.kind = "garbage"]

\* a JSON object whose "title" is a number
MistypedPayload(path) ==
    [MarshalIndent(readLiveBlogPage(Uri("http", path), SmallDoc).page)
        EXCEPT !.bad = {"title"}]

\* the pages an earlier run of the program can have stored under the key
StoredPages(path) ==
    { readLiveBlogPage(Uri(scheme, path), doc).page :
        scheme \in Schemes, doc \in {NoDocument, SmallDoc} }

InitialEntries(path) ==
    {NoEntry, Entry(GarbagePayload, 0), Entry(MistypedPayload(path), 0)}
    \cup {Entry(MarshalIndent(pg), cacheTtl) : pg \in StoredPages(path)}

NoWrite == [by |-> "", page |-> emptyPage]

IdleReq ==
    [pc |-> "idle", path |-> "", scheme |-> "", cached |-> FALSE,
     read |-> NoEntry, computes |-> 0, data |-> emptyPage,
     written |-> NoEntry, page |-> emptyPage, isCached |-> FALSE,
     overlaps |-> {}]

InFlight(h) == req[h].pc \in {"getCache", "live", "setCache"}

Returned(h) == req[h].pc \in {"done", "panicked"}

(***************************************************************************)
(* homePage and readBlogPage, one store operation or fetch per step.       *)
(***************************************************************************)

\* homePage: a request arrives and readBlogPage is entered
Request(h, path, scheme, cacheMode) ==
    /\ ~InFlight(h)
    /\ LET others == {g \in Handlers \ {h} : InFlight(g) /\ req[g].path = path}
       IN req' = [g \in Handlers |->
                    IF g = h
                    THEN [IdleReq EXCEPT !.pc = "getCache", !.path = path,
                                         !.scheme = scheme,
                                         !.cached = (cacheMode # "refresh"),
                                         !.overlaps = others]
                    ELSE IF g \in others
                    THEN [req[g] EXCEPT !.overlaps = @ \cup {h}]
                    ELSE req[g]]
    /\ UNCHANGED <<store, lastWrite, extractVars, wordVars, pathVars, phase>>

\* getCache and the branch on its result; the cached branch returns
GetCache(h) ==
    /\ req[h].pc = "getCache"
    /\ LET key == CacheKey(req[h].path)
           got == getCache(store, key)
       IN req' = [req EXCEPT ![h] =
                    IF ServesCached(got.err, req[h].cached)
                    THEN [@ EXCEPT !.read = store[key],
                                   !.page = setCached(got.result),
                                   !.isCached = TRUE, !.pc = "done"]
                    ELSE [@ EXCEPT !.read = store[key], !.pc = "live"]]
    /\ UNCHANGED <<store, lastWrite, extractVars, wordVars, pathVars, phase>>

\* readLiveBlogPage on whatever the site serves now
Live(h) ==
    /\ req[h].pc = "live"
    /\ \E doc \in SiteDocs :
         LET res == readLiveBlogPage(Uri(req[h].scheme, req[h].path), doc)
         IN req' = [req EXCEPT ![h] =
                      IF res.panic
                      THEN [@ EXCEPT !.computes = @ + 1, !.pc = "panicked"]
                      ELSE [@ EXCEPT !.computes = @ + 1, !.data = res.page,
                                     !.pc = "setCache"]]
    /\ UNCHANGED <<store, lastWrite, extractVars, wordVars, pathVars, phase>>

\* setCache(cacheKey, data, 1440) and the return of the fresh page
SetCache(h) ==
    /\ req[h].pc = "setCache"
    /\ LET key == CacheKey(req[h].path)
       IN /\ store' = setCache(store, key, req[h].data, cacheTtl)
          /\ lastWrite' = [lastWrite EXCEPT ![key] =
                              [by |-> h, page |-> req[h].data]]
          /\ req' = [req EXCEPT ![h] =
                       [@ EXCEPT !.written = store'[key], !.page = req[h].data,
                                 !.isCached = FALSE, !.pc = "done"]]
    /\ UNCHANGED <<extractVars, wordVars, pathVars, phase>>

CacheIdle == store = <<>> /\ req = <<>> /\ lastWrite = <<>>

(***************************************************************************)
(* The specifications.                                                     *)
(***************************************************************************)

Init ==
    /\ store \in [CacheKeys -> UNION {InitialEntries(path) : path \in Paths}]
    /\ \A path \in Paths : store[CacheKey(path)] \in InitialEntries(path)
    /\ req = [h \in Handlers |-> IdleReq]
    /\ lastWrite = [k \in CacheKeys |-> NoWrite]
    /\ phase = "serving"
    /\ ExtractIdle /\ WordsIdle /\ PathIdle

Next ==
    \/ \E h \in Handlers, path \in Paths, scheme \in Schemes,
          cacheMode \in CacheModes : Request(h, path, scheme, cacheMode)
    \/ \E h \in Handlers : GetCache(h)
    \/ \E h \in Handlers : Live(h)
    \/ \E h \in Handlers : SetCache(h)

Spec == Init /\ [][Next]_vars

InitExtract ==
    /\ bow \in Docs
    /\ extracted = NoResult
    /\ phase = "opened"
    /\ CacheIdle /\ WordsIdle /\ PathIdle

NextExtract == ReadLive

SpecExtract == InitExtract /\ [][NextExtract]_vars

InitWords ==
    /\ text \in Texts
    /\ numWords = 0
    /\ phase = "input"
    /\ CacheIdle /\ ExtractIdle /\ PathIdle

NextWords == CountWords

SpecWords == InitWords /\ [][NextWords]_vars

InitPath ==
    /\ selection \in Selections
    /\ cData = NoSet
    /\ counts = <<>>
    /\ phase = "selected"
    /\ CacheIdle /\ ExtractIdle /\ WordsIdle

NextPath == DiscoverBlock

SpecPath == InitPath /\ [][NextPath]_vars

(***************************************************************************)
(* The claims.                                                             *)
(***************************************************************************)

Malformed(payload) == payload.kind # "json" \/ payload.bad # {}

\* the pages readLiveBlogPage can return for a path
FreshPages(path) ==
    { readLiveBlogPage(Uri(scheme, path), doc).page :
        scheme \in Schemes, doc \in {NoDocument, SmallDoc} }

\* C1: a readBlogPage call with useCache=true whose getCache found an entry
\* under the key returns with isCached=true and the page's cached flag set,
\* has not called readLiveBlogPage and has not called setCache; when the
\* entry is the stored form of a page, the page returned is that page with
\* its cached flag set.
C1_CacheHitServesStored ==
    \A h \in Handlers :
        (req[h].pc = "done" /\ req[h].cached /\ req[h].read.present) =>
            /\ req[h].isCached
            /\ req[h].page.Cached
            /\ req[h].computes = 0
            /\ ~req[h].written.present
            /\ \A pg \in FreshPages(req[h].path) :
                   req[h].read.payload = MarshalIndent(pg) =>
                       req[h].page = [pg EXCEPT !.Cached = TRUE]

\* a hit on an entry that an earlier request of this run wrote, holding a
\* page with an article and links
C1_Witness ==
    \E h \in Handlers :
        /\ req[h].pc = "done" /\ req[h].cached /\ req[h].read.present
        /\ lastWrite[CacheKey(req[h].path)].by # ""
        /\ req[h].read.payload = MarshalIndent(lastWrite[CacheKey(req[h].path)].page)
        /\ req[h].isCached
        /\ Len(req[h].page.Articles) > 0 /\ Len(req[h].page.Links) > 0

\* C2: every readBlogPage call with useCache=false, whatever the store held,
\* returns, having called readLiveBlogPage exactly once and written its
\* result under the key with the 1440-minute TTL, and returns that page
\* with isCached=false and cached=false.
C2_RefreshComputesWritesReturns ==
    \A h \in Handlers :
        (Returned(h) /\ ~req[h].cached) =>
            /\ req[h].pc = "done"
            /\ req[h].computes = 1
            /\ req[h].written = Entry(MarshalIndent(req[h].data), cacheTtl)
            /\ req[h].page = req[h].data
            /\ ~req[h].isCached
            /\ ~req[h].page.Cached

\* C3: a readBlogPage call with useCache=true whose getCache found a payload
\* that does not deserialize into a Page behaves as on a miss: it calls
\* readLiveBlogPage, writes the fresh page and returns it with
\* isCached=false, never a page marked as cached.
C3_MalformedPayloadIsMiss ==
    \A h \in Handlers :
        (req[h].pc = "done" /\ req[h].cached /\ req[h].read.present
         /\ Malformed(req[h].read.payload)) =>
            /\ ~req[h].isCached
            /\ ~req[h].page.Cached
            /\ req[h].computes = 1
            /\ req[h].written = Entry(MarshalIndent(req[h].data), cacheTtl)
            /\ req[h].page = req[h].data

\* the call of h took the branch that reads the live page
Missed(h) == req[h].pc \in {"live", "setCache", "panicked"}
             \/ (req[h].pc = "done" /\ ~req[h].isCached)

\* the current calls of h and g are for the same key and were in progress
\* at the same time
Concurrent(h, g) ==
    /\ h # g
    /\ g \in req[h].overlaps /\ h \in req[g].overlaps
    /\ req[h].path = req[g].path

\* C10: when concurrent readBlogPage calls for one key all miss, each calls
\* readLiveBlogPage and writes its own result, each returns its own fresh
\* page with isCached=false, and once all have ended the store's entry for
\* the key is the whole value of the last write.
C10_ConcurrentMissesLastWriteWins ==
    \A h \in Handlers : \A g \in Handlers :
        (Concurrent(h, g) /\ Missed(h) /\ Missed(g)
         /\ Returned(h) /\ Returned(g)) =>
            LET key == CacheKey(req[h].path)
            IN /\ \A f \in {h, g} :
                    /\ req[f].pc = "done"
                    /\ req[f].computes = 1
                    /\ req[f].page = req[f].data
                    /\ ~req[f].isCached
                    /\ req[f].written = Entry(MarshalIndent(req[f].data), cacheTtl)
               /\ lastWrite[key].by \in {h, g}
               /\ store[key] = Entry(MarshalIndent(lastWrite[key].page), cacheTtl)
               /\ store[key] = req[lastWrite[key].by].written

Min(a, b) == IF a < b THEN a ELSE b

\* a candidate with a heading whose first heading holds an anchor
ValidArticle(cand) ==
    Len(cand.headings) > 0 /\ Len(cand.headings[1].anchors) > 0

\* C4: on every document, also one with more than 100 article candidates,
\* readBlogArticles ends normally and returns at most 100 articles.
C4_ExtractCapsAtMaxNum ==
    (phase = "extracted" /\ bow.exists) =>
        /\ ~extracted.panic
        /\ Len(extracted.page.Articles) <= maxNum

\* C5: the sequence readBlogArticles returns has an element only for the
\* candidates with a heading whose first heading holds an anchor: its
\* length is the number of such candidates among the first 100.
C5_OnlyValidCandidatesYieldArticles ==
    (phase = "extracted" /\ bow.exists /\ ~extracted.panic) =>
        Len(extracted.page.Articles) =
            Cardinality({i \in 1..Min(Len(bow.articles), maxNum) :
                            ValidArticle(bow.articles[i])})

\* the elements of items whose Uri no earlier element has, in order
RECURSIVE FirstByUri(_, _)
FirstByUri(items, n) ==
    IF n = 0 THEN <<>>
    ELSE IF \E j \in 1..(n - 1) : items[j].Uri = items[n].Uri
         THEN FirstByUri(items, n - 1)
         ELSE Append(FirstByUri(items, n - 1), items[n])

DistinctUris(links) ==
    \A i \in 1..Len(links) : \A j \in 1..Len(links) :
        links[i].Uri = links[j].Uri => i = j

\* the anchors of a candidate that carry an href, as LinkItems
HrefItems(cand) ==
    LET withHref == SelectSeq(cand.anchors, LAMBDA a : a.hasHref)
    IN [i \in 1..Len(withHref) |->
           [Uri |-> withHref[i].href, Title |-> withHref[i].text]]

\* the link objects of a document with a non-empty path, as LinkItems
PathItems(doc) ==
    LET withPath == SelectSeq(doc.links, LAMBDA l : l.Path # "")
    IN [i \in 1..Len(withPath) |->
           [Uri |-> withPath[i].Path, Title |-> withPath[i].Text]]

\* C6: the links of every extracted Article and of every freshly built
\* Page hold no two elements of equal uri, and are the first anchor of each
\* uri, in document order.
C6_LinksFirstOccurrenceWins ==
    (phase = "extracted" /\ bow.exists /\ ~extracted.panic) =>
        LET page == extracted.page
        IN /\ DistinctUris(page.Links)
           /\ page.Links = FirstByUri(PathItems(bow), Len(PathItems(bow)))
           /\ \A i \in 1..Len(page.Articles) :
                /\ DistinctUris(page.Articles[i].Links)
                /\ ValidArticle(bow.articles[i]) =>
                     page.Articles[i].Links =
                        FirstByUri(HrefItems(bow.articles[i]),
                                   Len(HrefItems(bow.articles[i])))

\* an article and a page that both dropped a repeated uri and kept several
C6_Witness ==
    /\ phase = "extracted" /\ bow.exists /\ ~extracted.panic
    /\ Len(extracted.page.Links) = 2 /\ Len(PathItems(bow)) = 3
    /\ \E i \in 1..Len(extracted.page.Articles) :
         /\ Len(extracted.page.Articles[i].Links) >= 2
         /\ Len(HrefItems(bow.articles[i])) > Len(extracted.page.Articles[i].Links)

\* C7: the word count of a text is the number of elements left after
\* collapsing every run of two or more whitespace characters to one space,
\* then trimming leading and trailing spaces, then splitting on single
\* spaces; a text that starts or ends with a run of whitespace other than
\* spaces gets no extra empty word.
C7_WordCountCollapseTrimSplit ==
    phase = "counted" =>
        numWords = Len(Split(Trim(ReplaceSpaceRuns(text), {" "}), " "))

\* the first token of every space-separated fragment of a path
FragmentTags(path) ==
    LET frags == Split(path, " ")
    IN {frags[i][1] : i \in {k \in 1..Len(frags) : Len(frags[k]) > 0}}

\* C8: the path built for a block element holds no fragment whose tag name
\* is html or body.
C8_PathExcludesRootTags ==
    phase = "built" =>
        FragmentTags(ToPath(cData)) \cap {"html", "body"} = {}

\* an attribute-less parent directly under body: the parent's path is kept
\* on the first branch and body's is refused on the grandparent branch
C8_Witness ==
    /\ phase = "built"
    /\ Len(selection) = 4
    /\ cData.ParentPath = <<"div">>
    /\ selection[2].tagName = <<"body">>

Markers == {".", "#"}

HasNoMarker(path) == \A i \in 1..Len(path) : path[i] \notin Markers

\* the path buildClassesIdSet takes from the parent of sel
PathOfParent(sel) ==
    LET parentSet == buildClassesIdSet(Parent(sel))
    IN IF parentSet.TagName \in {<<"html">>, <<"body">>} THEN <<>>
       ELSE ToPath(parentSet)

\* tag, #id and .classes of the parent of sel, without its ancestry
OwnFragmentOfParent(sel) ==
    ToPath([buildClassesIdSet(Parent(sel)) EXCEPT !.ParentPath = <<>>])

GrandIsElement(sel) ==
    /\ Len(sel) >= 3
    /\ sel[Len(sel) - 2].tagName \notin {<<"html">>, <<"body">>}

\* C9: whenever the parent's own fragment holds neither '.' nor '#' and the
\* grandparent exists and is not html/body, the parent path of the node is
\* the grandparent's path, whatever the parent inherits from its ancestry.
C9_SkipRuleReadsOwnFragment ==
    (phase = "built" /\ GrandIsElement(selection)
     /\ HasNoMarker(OwnFragmentOfParent(selection))) =>
        cData.ParentPath = ToPath(buildClassesIdSet(Parent(Parent(selection))))

\* C9 as amended: whenever the parent's whole path (its inherited parent
\* path and its own fragment) holds neither '.' nor '#' and the grandparent
\* exists and is not html/body, the parent path of the node is the
\* grandparent's path; when the parent's path holds a marker anywhere, its
\* inherited ancestry included, the parent path of the node is the parent's
\* path: a node under an attribute-less div under div#x under body gets
\* "div#x div".
C9_SkipRuleReadsParentPath ==
    (phase = "built" /\ Len(selection) >= 2) =>
        /\ (HasNoMarker(PathOfParent(selection)) /\ GrandIsElement(selection)) =>
              cData.ParentPath =
                  ToPath(buildClassesIdSet(Parent(Parent(selection))))
        /\ ~HasNoMarker(PathOfParent(selection)) =>
              cData.ParentPath = PathOfParent(selection)
        /\ (/\ Len(selection) = 5
            /\ selection[3] = Elem("div", TRUE, <<"x">>, FALSE, <<>>, 2)
            /\ selection[4] = Elem("div", FALSE, <<>>, FALSE, <<>>, 16)) =>
              cData.ParentPath = <<"div", "#", "x", " ", "div">>

\* both cases: an anonymous parent skipped for its grandparent, and an
\* anonymous parent kept because its ancestry carries an id
C9_Witness ==
    /\ phase = "built"
    /\ GrandIsElement(selection)
    /\ HasNoMarker(OwnFragmentOfParent(selection))
    /\ HasNoMarker(PathOfParent(selection))
    /\ cData.ParentPath # PathOfParent(selection)
    /\ cData.ParentPath = <<"main">>

====
